---- MODULE Spec2Model ----
(***************************************************************************)
(* Model of the falavox-server translation-session orchestration:          *)
(*   - PalabraOAuthService   (src/src/services/palabraOAuthService.js)     *)
(*   - PalabraSessionService (src/src/services/palabraOAuthService.js)     *)
(*   - PalabraAgoraService   (src/unnamed/part_001)                        *)
(*   - the start_translation / stop_translation socket handlers            *)
(*     (src/src/socket/socketHandlers.js)                                  *)
(*                                                                         *)
(* Node runs one handler at a time; a handler is interrupted only at an    *)
(* await of a network call.  Every action below is therefore the code      *)
(* between two network awaits, executed atomically.                        *)
(*                                                                         *)
(* Time is counted in ticks of five minutes.                               *)
(***************************************************************************)
EXTENDS Integers, FiniteSets, Sequences, TLC

\* ------------------------------------------------------------------ sets
Channels == {"room1", "room2"}
\* handler invocations (HTTP requests or socket events) that can be in
\* flight at the same time
Requests == {"r1", "r2"}

\* language codes, as the sequence of their characters
En == <<"e", "n">>
Es == <<"e", "s">>
\* codes the validation rejects, and a missing one
EnUpper == <<"E", "N">>
EnLowerRegion == <<"e", "n", "-", "u", "s">>
Missing == <<>>
\* the (sourceLanguage, targetLanguage) pairs a start request may carry
LangPairs == {<<En, Es>>, <<EnUpper, Es>>, <<En, Missing>>}
\* a two-letter code that is no language, and the pairs of the start
\* requests in the behaviours made of start requests only
Xx == <<"x", "x">>
StartPairs == LangPairs \cup {<<Xx, Es>>, <<En, EnLowerRegion>>}
\* the channel names a request may carry ("" is a missing channel)
ChannelInputs == Channels \cup {""}

\* ---------------------------------------------------------------- bounds
\* the clock runs from its initial value for MaxTime ticks
MaxTime == 2
\* session ids the provider hands out
MaxSessionIds == 2
\* access tokens the token endpoint hands out: as many as session ids
MaxTokens == MaxSessionIds
\* task ids the provider hands out
MaxTaskIds == 2

\* ------------------------------------------------------- program constants
\* config.translation.session.maxSessions (scaled down)
maxSessions == 1
\* config.translation.session.cacheTimeout, in ticks (scaled down)
cacheTimeout == 2
\* the 5 * 60 * 1000 ms subtracted in getValidToken: one tick
SafetyMargin == 1
\* config.token.defaultUidRange of the server that issues distinct uids
\* (scaled down)
UidRange == 3
\* expires_in values the token endpoint may answer with, in ticks
ExpiresIn == {1, 3}

VARIABLES
    transport,       \* which entry point the clients use: the HTTP API
                     \* (PalabraSessionService) or the socket events
                     \* (PalabraAgoraService); the two share no state
    now,             \* Date.now()
    configured,      \* config.translation.oauth.clientId && clientSecret
    defaultUidRange, \* config.token.defaultUidRange
    cachedToken,     \* PalabraOAuthService.cachedToken   (0 = null)
    tokenExpiry,     \* PalabraOAuthService.tokenExpiry   (0 = null)
    issuedTokens,    \* the token endpoint: access tokens handed out so far
    tokenValidUntil, \* the token endpoint: when the access token it handed
                     \* out last ends (issue time + expires_in; 0 = none yet)
    activeSessions,  \* PalabraSessionService.activeSessions: Map channel -> sessionData
    issuedSessions,  \* the provider: session ids handed out so far
    activeTasks,     \* PalabraAgoraService.activeTasks: Map channel -> task
    issuedTasks,     \* the provider: task ids handed out so far
    req,             \* the handler invocations: where each one is suspended
    last             \* the operation that completed last, with what it returned

envVars     == <<transport, now, configured, defaultUidRange>>
oauthVars   == <<cachedToken, tokenExpiry, issuedTokens, tokenValidUntil>>
sessionVars == <<activeSessions, issuedSessions>>
agoraVars   == <<activeTasks, issuedTasks>>

vars == <<transport, now, configured, defaultUidRange, cachedToken, tokenExpiry, issuedTokens,
          tokenValidUntil,
          activeSessions, issuedSessions, activeTasks, issuedTasks, req, last>>

\* ---------------------------------------------------------------- helpers
Idle == [pc |-> "idle", op |-> "none", channel |-> "none",
         sourceLanguage |-> Missing, targetLanguage |-> Missing,
         accessToken |-> 0, sessionId |-> 0, taskId |-> 0, creds |-> <<>>,
         attempt |-> 0]

EmptyMap == [k \in {} |-> 0]
\* Map.delete(channel)
MapDelete(m, c) == [k \in (DOMAIN m) \ {c} |-> m[k]]
\* Map.set(channel, v)
MapSet(m, c, v) == [k \in (DOMAIN m) \cup {c} |-> IF k = c THEN v ELSE m[k]]

\* ------------------------------------------------- PalabraOAuthService
\* mutant: the service reports itself available without credentials
isAvailable_always == TRUE

\* isAvailable(): !!(clientId && clientSecret)
isAvailable == configured

\* mutant: the expiry comparison is inverted
cacheValid_inverted == cachedToken # 0 /\ tokenExpiry # 0 /\ now >= tokenExpiry

\* the test of getValidToken: a cached token that is still valid
cacheValid == cachedToken # 0 /\ tokenExpiry # 0 /\ now < tokenExpiry

\* ------------------------------------------------ PalabraSessionService
\* mutant: the expired session is reported absent but left in the store
getActiveSessionStore_noEvict(m, c) == m

\* mutant: the lookup removes the session it finds, expired or not
getActiveSessionStore_evictAlways(m, c) == MapDelete(m, c)

\* getActiveSession(channel): the store it leaves behind
getActiveSessionStore(m, c) ==
    IF c \notin DOMAIN m THEN m
    ELSE IF now >= m[c].expiresAt THEN MapDelete(m, c)
    ELSE m

\* mutant: the expiry test is inverted
getActiveSessionFound_inverted(m, c) ==
    c \in DOMAIN m /\ now >= m[c].expiresAt

\* getActiveSession(channel): has it a session to return (else null)
getActiveSessionFound(m, c) ==
    c \in DOMAIN m /\ ~(now >= m[c].expiresAt)

\* mutant: the sweep removes nothing
cleanupExpiredSessionsStore_none(m) == m

\* mutant: the sweep keeps a session whose expiresAt is the present instant
cleanupExpiredSessionsStore_strict(m) ==
    [k \in {c \in DOMAIN m : ~(now > m[c].expiresAt)} |-> m[k]]

\* cleanupExpiredSessions(): the store it leaves behind
cleanupExpiredSessionsStore(m) ==
    [k \in {c \in DOMAIN m : ~(now >= m[c].expiresAt)} |-> m[k]]

\* sessions of the store that have not expired (now < expiresAt)
Unexpired(m) == {c \in DOMAIN m : now < m[c].expiresAt}

\* the session-limit test of createSession, on the store m
atLimit_above(m) == Cardinality(DOMAIN m) > maxSessions
atLimit(m) == Cardinality(DOMAIN m) >= maxSessions

\* the store after createSession's synchronous prefix: the lookup of the
\* channel (lazy eviction) and, at the limit, the sweep
createSessionStore(m, c) ==
    LET m1 == getActiveSessionStore(m, c)
    IN IF getActiveSessionFound(m, c) THEN m1
       ELSE IF atLimit(m1) THEN cleanupExpiredSessionsStore(m1)
       ELSE m1

\* mutant: the session TTL is not added to expiresAt
sessionData_noTTL(r, id) ==
    [sessionId |-> id, channel |-> r.channel,
     sourceLanguage |-> r.sourceLanguage, targetLanguage |-> r.targetLanguage,
     status |-> "active", createdAt |-> now, expiresAt |-> now,
     accessToken |-> r.accessToken]

\* the sessionData record createSession builds from the provider's answer
\* {session_id: id} to the request r
sessionData(r, id) ==
    [sessionId |-> id, channel |-> r.channel,
     sourceLanguage |-> r.sourceLanguage, targetLanguage |-> r.targetLanguage,
     status |-> "active", createdAt |-> now, expiresAt |-> now + cacheTimeout,
     accessToken |-> r.accessToken]

\* mutant: the controller answers with the whole sessionData
startTranslationReply_whole(s) == s

\* TranslationSessionController.startTranslation: the data of the HTTP
\* reply for the sessionData s that createSession returned (streamUrl and
\* websocketUrl, which the provider chooses, are left out of the model)
startTranslationReply(s) ==
    [sessionId |-> s.sessionId, channel |-> s.channel,
     sourceLanguage |-> s.sourceLanguage, targetLanguage |-> s.targetLanguage,
     status |-> s.status, createdAt |-> s.createdAt, expiresAt |-> s.expiresAt]

\* the reply of getSessionStatus for the result s of getActiveSession
statusOf(found, s) ==
    IF found
    THEN [hasSession |-> TRUE, sessionId |-> s.sessionId, status |-> s.status,
          sourceLanguage |-> s.sourceLanguage, targetLanguage |-> s.targetLanguage,
          createdAt |-> s.createdAt, expiresAt |-> s.expiresAt,
          isExpired |-> now >= s.expiresAt]
    ELSE [hasSession |-> FALSE, sessionId |-> 0, status |-> "inactive",
          sourceLanguage |-> Missing, targetLanguage |-> Missing,
          createdAt |-> 0, expiresAt |-> 0, isExpired |-> TRUE]

\* one entry of getAllActiveSessions
summaryOf(c, s) ==
    [channel |-> c, sessionId |-> s.sessionId,
     sourceLanguage |-> s.sourceLanguage, targetLanguage |-> s.targetLanguage,
     status |-> s.status, createdAt |-> s.createdAt, expiresAt |-> s.expiresAt]

\* the entries getAllActiveSessions returns
listedSessions(m) == {summaryOf(c, m[c]) : c \in {k \in DOMAIN m : now < m[k].expiresAt}}

\* ------------------------------------------------------- validation
Lower == {"a", "b", "c", "d", "e", "f", "g", "h", "i", "j", "k", "l", "m",
          "n", "o", "p", "q", "r", "s", "t", "u", "v", "w", "x", "y", "z"}
Upper == {"A", "B", "C", "D", "E", "F", "G", "H", "I", "J", "K", "L", "M",
          "N", "O", "P", "Q", "R", "S", "T", "U", "V", "W", "X", "Y", "Z"}

\* mutant: the pattern is matched without regard to case
isValidLanguageCode_anyCase(code) ==
    /\ Len(code) >= 2
    /\ Len(code) <= 5
    /\ code[1] \in Lower \cup Upper
    /\ code[2] \in Lower \cup Upper
    /\ (Len(code) = 2 \/ (Len(code) = 5 /\ code[3] = "-"
                          /\ code[4] \in Lower \cup Upper
                          /\ code[5] \in Lower \cup Upper))

\* isValidLanguageCode: length 2..5 and /^[a-z]{2}(-[A-Z]{2})?$/
isValidLanguageCode(code) ==
    /\ Len(code) >= 2
    /\ Len(code) <= 5
    /\ code[1] \in Lower
    /\ code[2] \in Lower
    /\ (Len(code) = 2 \/ (Len(code) = 5 /\ code[3] = "-"
                          /\ code[4] \in Upper /\ code[5] \in Upper))

Init ==
    /\ transport \in {"http", "socket"}
    /\ now = SafetyMargin + 1
    /\ configured \in BOOLEAN
    /\ defaultUidRange = 1
    /\ cachedToken = 0
    /\ tokenExpiry = 0
    /\ issuedTokens = 0
    /\ tokenValidUntil = 0
    /\ activeSessions = EmptyMap
    /\ issuedSessions = 0
    /\ activeTasks = EmptyMap
    /\ issuedTasks = 0
    /\ req = [p \in Requests |-> Idle]
    /\ last = [op |-> "none"]

\* Date.now() advances
Tick ==
    /\ now < SafetyMargin + 1 + MaxTime
    /\ now' = now + 1
    /\ UNCHANGED <<transport, configured, defaultUidRange, oauthVars, sessionVars,
                   agoraVars, req, last>>

\* --------------------------------------- PalabraSessionService, HTTP API
\* createSession ends by throwing 'Session creation failed: ...'; m is the
\* store it leaves behind
createSessionThrows(p, c, why, m) ==
    /\ activeSessions' = m
    /\ req' = [req EXCEPT ![p] = Idle]
    /\ last' = [op |-> "createSession", channel |-> c, ok |-> FALSE, error |-> why]
    /\ UNCHANGED issuedSessions

\* createSession sends POST {apiUrl}/sessions with the bearer token tok
postSession(p, c, sl, tl, tok, m) ==
    /\ activeSessions' = m
    /\ req' = [req EXCEPT ![p] =
                  [pc |-> "post", op |-> "createSession", channel |-> c,
                   sourceLanguage |-> sl, targetLanguage |-> tl,
                   accessToken |-> tok, sessionId |-> 0, taskId |-> 0, creds |-> <<>>,
                   attempt |-> 1]]
    /\ UNCHANGED <<issuedSessions, last>>

\* createSession(channel, sourceLanguage, targetLanguage) up to its first
\* network await; getValidToken and requestNewToken run inside it
createSession(p, c, sl, tl) ==
    LET m == createSessionStore(activeSessions, c)
    IN
    IF ~isAvailable
    THEN /\ createSessionThrows(p, c, "not configured", activeSessions)
         /\ UNCHANGED oauthVars
    ELSE IF getActiveSessionFound(activeSessions, c)
    THEN /\ last' = [op |-> "createSession", channel |-> c, ok |-> TRUE,
                     existing |-> TRUE, session |-> activeSessions[c],
                     reply |-> startTranslationReply(activeSessions[c])]
         /\ UNCHANGED <<oauthVars, sessionVars, req>>
    ELSE IF atLimit(m)
    THEN /\ createSessionThrows(p, c, "capacity", m)
         /\ UNCHANGED oauthVars
    ELSE IF cacheValid
    THEN /\ postSession(p, c, sl, tl, cachedToken, m)
         /\ UNCHANGED oauthVars
    ELSE \* requestNewToken: POST tokenUrl
         /\ activeSessions' = m
         /\ req' = [req EXCEPT ![p] =
                       [pc |-> "token", op |-> "createSession", channel |-> c,
                        sourceLanguage |-> sl, targetLanguage |-> tl,
                        accessToken |-> 0, sessionId |-> 0, taskId |-> 0, creds |-> <<>>,
                   attempt |-> 1]]
         /\ UNCHANGED <<oauthVars, issuedSessions, last>>

\* TranslationSessionController.startTranslation: POST /sessions/start
startTranslation(p, c, sl, tl) ==
    /\ transport = "http"
    /\ req[p].pc = "idle"
    /\ UNCHANGED <<envVars, agoraVars>>
    /\ IF c = "" \/ sl = Missing \/ tl = Missing
          \/ ~isValidLanguageCode(sl) \/ ~isValidLanguageCode(tl)
       THEN /\ last' = [op |-> "startTranslation", channel |-> c, ok |-> FALSE,
                        error |-> "validation"]
            /\ UNCHANGED <<oauthVars, sessionVars, req>>
       ELSE createSession(p, c, sl, tl)

\* getValidToken, called on its own, returns the token tok (cached: it
\* came from the cache, without a token request)
getValidTokenReturns(p, tok, cached) ==
    /\ req' = [req EXCEPT ![p] = Idle]
    /\ last' = [op |-> "getValidToken", ok |-> TRUE, token |-> tok, cached |-> cached]
    /\ UNCHANGED sessionVars

\* getValidToken, called on its own, throws 'OAuth token request failed:
\* ...' (sent: the token request had been sent)
getValidTokenThrows(p, why, sent) ==
    /\ req' = [req EXCEPT ![p] = Idle]
    /\ last' = [op |-> "getValidToken", ok |-> FALSE, error |-> why, sent |-> sent]
    /\ UNCHANGED sessionVars

\* getValidToken() called on its own, up to the await of the token request;
\* requestNewToken throws before it sends anything when isAvailable() is
\* false
getValidToken(p) ==
    /\ transport = "http"
    /\ req[p].pc = "idle"
    /\ UNCHANGED <<envVars, oauthVars, agoraVars>>
    /\ IF cacheValid
       THEN getValidTokenReturns(p, cachedToken, TRUE)
       ELSE IF ~isAvailable
       THEN getValidTokenThrows(p, "not configured", FALSE)
       ELSE /\ req' = [req EXCEPT ![p] =
                          [pc |-> "token", op |-> "getValidToken", channel |-> "none",
                           sourceLanguage |-> Missing, targetLanguage |-> Missing,
                           accessToken |-> 0, sessionId |-> 0, taskId |-> 0,
                           creds |-> <<>>, attempt |-> 1]]
            /\ UNCHANGED <<sessionVars, last>>

\* mutant: the safety margin is not subtracted
getValidTokenExpiry_noMargin(e) == now + e

\* the tokenExpiry getValidToken caches for a token response with
\* expires_in e: Date.now() + expires_in * 1000 - 5 * 60 * 1000
getValidTokenExpiry(e) == now + e - SafetyMargin

\* the token endpoint answers with {access_token, expires_in: e}:
\* getValidToken caches the token and returns it; createSession goes on to
\* POST /sessions
tokenGranted(p, e) ==
    /\ req[p].pc = "token"
    /\ issuedTokens < MaxTokens
    /\ issuedTokens' = issuedTokens + 1
    /\ tokenValidUntil' = now + e
    /\ cachedToken' = issuedTokens + 1
    /\ tokenExpiry' = getValidTokenExpiry(e)
    /\ IF req[p].op = "getValidToken"
       THEN getValidTokenReturns(p, issuedTokens + 1, FALSE)
       ELSE postSession(p, req[p].channel, req[p].sourceLanguage,
                        req[p].targetLanguage, issuedTokens + 1, activeSessions)
    /\ UNCHANGED <<envVars, agoraVars>>

\* mutant: a failed token request wipes the cache
getValidTokenFailedCache_wiped(tok, exp) == <<0, 0>>

\* the <<cachedToken, tokenExpiry>> the catch block of getValidToken leaves
\* behind when the token request has failed
getValidTokenFailedCache(tok, exp) == <<tok, exp>>

\* mutant: a failed token request is sent again, and again when that one
\* fails (attempt tells the first try from the later ones)
tokenFailed_retry(p, why) ==
    /\ req[p].pc = "token"
    /\ why \in {"rejected", "timeout", "no access_token"}
    /\ req' = [req EXCEPT ![p].attempt = IF @ = 1 THEN 2 ELSE 1]
    /\ UNCHANGED <<envVars, oauthVars, sessionVars, agoraVars, last>>

\* the token request fails (rejected, timed out, or answered without
\* access_token): getValidToken throws, and so does createSession
tokenFailed(p, why) ==
    /\ req[p].pc = "token"
    /\ why \in {"rejected", "timeout", "no access_token"}
    /\ cachedToken' = getValidTokenFailedCache(cachedToken, tokenExpiry)[1]
    /\ tokenExpiry' = getValidTokenFailedCache(cachedToken, tokenExpiry)[2]
    /\ UNCHANGED <<issuedTokens, tokenValidUntil>>
    /\ IF req[p].op = "getValidToken"
       THEN getValidTokenThrows(p, why, TRUE)
       ELSE createSessionThrows(p, req[p].channel, "oauth", activeSessions)
    /\ UNCHANGED <<envVars, agoraVars>>

\* mutant: only the expiry is reset
clearCachedToken_expiryOnly ==
    /\ transport = "http"
    /\ cachedToken' = cachedToken
    /\ tokenExpiry' = 0
    /\ last' = [op |-> "clearCachedToken"]
    /\ UNCHANGED <<envVars, issuedTokens, tokenValidUntil, sessionVars, agoraVars, req>>

\* clearCachedToken()
clearCachedToken ==
    /\ transport = "http"
    /\ cachedToken' = 0
    /\ tokenExpiry' = 0
    /\ last' = [op |-> "clearCachedToken"]
    /\ UNCHANGED <<envVars, issuedTokens, tokenValidUntil, sessionVars, agoraVars, req>>

\* getTokenStatus(): what it returns in the current state
getTokenStatus ==
    [hasToken |-> cachedToken # 0,
     isExpired |-> IF tokenExpiry # 0 THEN now >= tokenExpiry ELSE TRUE,
     expiresAt |-> tokenExpiry,
     isConfigured |-> isAvailable]

\* POST /sessions answers with a session_id: the session is stored
sessionCreated(p) ==
    /\ req[p].pc = "post"
    /\ issuedSessions < MaxSessionIds
    /\ issuedSessions' = issuedSessions + 1
    /\ activeSessions' = MapSet(activeSessions, req[p].channel,
                                sessionData(req[p], issuedSessions + 1))
    /\ req' = [req EXCEPT ![p] = Idle]
    /\ last' = [op |-> "createSession", channel |-> req[p].channel, ok |-> TRUE,
                existing |-> FALSE,
                session |-> sessionData(req[p], issuedSessions + 1),
                reply |-> startTranslationReply(sessionData(req[p], issuedSessions + 1))]
    /\ UNCHANGED <<envVars, oauthVars, agoraVars>>

\* POST /sessions fails (rejected, timed out, or answered without session_id)
sessionFailed(p, why) ==
    /\ req[p].pc = "post"
    /\ why \in {"rejected", "timeout", "no session_id"}
    /\ createSessionThrows(p, req[p].channel, "provider", activeSessions)
    /\ UNCHANGED <<envVars, oauthVars, agoraVars>>

\* mutant: endSession answers true for a channel without session
endSessionNotFound_true(p, c) ==
    /\ last' = [op |-> "endSession", channel |-> c, ret |-> TRUE, called |-> FALSE,
                repeat |-> (last.op = "endSession" /\ last.channel = c /\ last.called)]
    /\ UNCHANGED req

\* endSession finds no session for the channel: it returns false
\* (repeat: it directly follows a completed endSession of the channel that
\* had found a session)
endSessionNotFound(p, c) ==
    /\ last' = [op |-> "endSession", channel |-> c, ret |-> FALSE, called |-> FALSE,
                repeat |-> (last.op = "endSession" /\ last.channel = c /\ last.called)]
    /\ UNCHANGED req

\* endSession(channel) up to the await of DELETE /sessions/{sessionId}
\* (TranslationSessionController.stopTranslation: DELETE /sessions/:channel)
endSession(p, c) ==
    /\ transport = "http"
    /\ req[p].pc = "idle"
    /\ IF c \notin DOMAIN activeSessions
       THEN endSessionNotFound(p, c)
       ELSE /\ req' = [req EXCEPT ![p] =
                          [pc |-> "delete", op |-> "endSession", channel |-> c,
                           sourceLanguage |-> Missing, targetLanguage |-> Missing,
                           accessToken |-> activeSessions[c].accessToken,
                           sessionId |-> activeSessions[c].sessionId,
                           taskId |-> 0, creds |-> <<>>,
                   attempt |-> 1]]
            /\ UNCHANGED last
    /\ UNCHANGED <<envVars, oauthVars, sessionVars, agoraVars>>

\* mutant: the session is removed only when the DELETE succeeded
endSessionStore_keepOnFailure(m, c, ok) == IF ok THEN MapDelete(m, c) ELSE m

\* the store endSession leaves behind once the DELETE has answered (ok) or
\* has failed
endSessionStore(m, c, ok) == MapDelete(m, c)

\* DELETE /sessions/{sessionId} answers (ok) or fails: endSession returns
endSessionDone(p, ok) ==
    /\ req[p].pc = "delete"
    /\ activeSessions' = endSessionStore(activeSessions, req[p].channel, ok)
    /\ req' = [req EXCEPT ![p] = Idle]
    /\ last' = [op |-> "endSession", channel |-> req[p].channel,
                ret |-> ok, called |-> TRUE, repeat |-> FALSE]
    /\ UNCHANGED <<envVars, oauthVars, issuedSessions, agoraVars>>

\* TranslationSessionController.stopTranslation: the HTTP reply for the
\* value endSession returned
stopTranslationReply(success) ==
    IF success
    THEN [status |-> 200, success |-> TRUE,
          text |-> "Translation session stopped successfully"]
    ELSE [status |-> 404, success |-> FALSE,
          text |-> "Translation session not found or already ended"]

\* getSessionStatus(channel)
getSessionStatus(c) ==
    /\ transport = "http"
    /\ activeSessions' = getActiveSessionStore(activeSessions, c)
    /\ last' = [op |-> "getSessionStatus", channel |-> c,
                evicted |-> activeSessions' # activeSessions,
                ret |-> statusOf(getActiveSessionFound(activeSessions, c),
                                 IF c \in DOMAIN activeSessions
                                 THEN activeSessions[c] ELSE Idle)]
    /\ UNCHANGED <<envVars, oauthVars, issuedSessions, agoraVars, req>>

\* the store getAllActiveSessions leaves behind
getAllActiveSessionsStore(m) == m

\* mutant: the list waits until no request is suspended at a network call
getAllActiveSessions_waits ==
    /\ \A p \in Requests : req[p].pc = "idle"
    /\ transport = "http"
    /\ activeSessions' = getAllActiveSessionsStore(activeSessions)
    /\ last' = [op |-> "getAllActiveSessions", ret |-> listedSessions(activeSessions)]
    /\ UNCHANGED <<envVars, oauthVars, issuedSessions, agoraVars, req>>

\* getAllActiveSessions()
getAllActiveSessions ==
    /\ transport = "http"
    /\ activeSessions' = getAllActiveSessionsStore(activeSessions)
    /\ last' = [op |-> "getAllActiveSessions", ret |-> listedSessions(activeSessions)]
    /\ UNCHANGED <<envVars, oauthVars, issuedSessions, agoraVars, req>>

\* getStats()
getStats ==
    /\ transport = "http"
    /\ activeSessions' = getAllActiveSessionsStore(activeSessions)
    /\ last' = [op |-> "getStats",
                ret |-> [activeSessions |-> Cardinality(DOMAIN activeSessions),
                         maxSessions |-> maxSessions,
                         cacheTimeout |-> cacheTimeout,
                         isConfigured |-> isAvailable,
                         sessions |-> listedSessions(activeSessions)]]
    /\ UNCHANGED <<envVars, oauthVars, issuedSessions, agoraVars, req>>

\* mutant: the sweep ends the sessions it removes at the provider too (a
\* DELETE /sessions/{sessionId} goes out for an expired session)
cleanupExpiredSessions_stops ==
    /\ transport = "http"
    /\ activeSessions' = cleanupExpiredSessionsStore(activeSessions)
    /\ last' = [op |-> "cleanupExpiredSessions"]
    /\ IF /\ activeSessions' # activeSessions
          /\ \E p \in Requests : req[p].pc = "idle"
       THEN LET p == CHOOSE q \in Requests : req[q].pc = "idle"
                c == CHOOSE k \in DOMAIN activeSessions : k \notin DOMAIN activeSessions'
            IN req' = [req EXCEPT ![p] =
                          [pc |-> "delete", op |-> "endSession", channel |-> c,
                           sourceLanguage |-> Missing, targetLanguage |-> Missing,
                           accessToken |-> activeSessions[c].accessToken,
                           sessionId |-> activeSessions[c].sessionId,
                           taskId |-> 0, creds |-> <<>>, attempt |-> 1]]
       ELSE UNCHANGED req
    /\ UNCHANGED <<envVars, oauthVars, issuedSessions, agoraVars>>

\* cleanupExpiredSessions(), run by the interval timer
cleanupExpiredSessions ==
    /\ transport = "http"
    /\ activeSessions' = cleanupExpiredSessionsStore(activeSessions)
    /\ last' = [op |-> "cleanupExpiredSessions"]
    /\ UNCHANGED <<envVars, oauthVars, issuedSessions, agoraVars, req>>

\* (the start requests carry the language pair en, es here; the other
\* pairs are those of NextStart)
NextHttp ==
    \/ \E p \in Requests, c \in ChannelInputs : startTranslation(p, c, En, Es)
    \/ \E p \in Requests, e \in ExpiresIn : tokenGranted(p, e)
    \/ \E p \in Requests, why \in {"rejected", "timeout", "no access_token"} :
           tokenFailed(p, why)
    \/ \E p \in Requests : sessionCreated(p)
    \/ \E p \in Requests, why \in {"rejected", "timeout", "no session_id"} :
           sessionFailed(p, why)
    \/ \E p \in Requests, c \in Channels : endSession(p, c)
    \/ \E p \in Requests, ok \in BOOLEAN : endSessionDone(p, ok)
    \/ \E c \in Channels : getSessionStatus(c)
    \/ getAllActiveSessions
    \/ cleanupExpiredSessions

\* ------------------------------------ PalabraAgoraService, socket events
\* isConfigured(): clientId && clientSecret && baseUrl (baseUrl has a default)
isConfigured == configured

\* mutant: the failure of an acknowledged start is caught after
\* translation_started has gone out
startError_afterStarted(p, c, acked, why) ==
    /\ req' = [req EXCEPT ![p] = Idle]
    /\ last' = [op |-> "start_translation", channel |-> c, error |-> why,
                emitted |-> IF acked
                            THEN <<"translation_start_acknowledged",
                                   "translation_started",
                                   "translation_start_error">>
                            ELSE <<"translation_start_error">>]
    /\ UNCHANGED agoraVars

\* the handler ends with a translation_start_error to the requester;
\* acked: translation_start_acknowledged went out before it
startError(p, c, acked, why) ==
    /\ req' = [req EXCEPT ![p] = Idle]
    /\ last' = [op |-> "start_translation", channel |-> c, error |-> why,
                emitted |-> IF acked
                            THEN <<"translation_start_acknowledged",
                                   "translation_start_error">>
                            ELSE <<"translation_start_error">>]
    /\ UNCHANGED agoraVars

\* the channelTokenData a start_translation event may carry: none, or a
\* token with a uid (uid 0 among them)
NoTokenData == [given |-> FALSE, token |-> "", uid |-> 0]
TokenDataInputs ==
    {NoTokenData,
     [given |-> TRUE, token |-> "client", uid |-> 0],
     [given |-> TRUE, token |-> "client", uid |-> 2]}

\* the values of Math.floor(Math.random() * config.token.defaultUidRange)
RandomUids == 0 .. (defaultUidRange - 1)

\* TokenService.generateToken(channel, uid): uid || the random draw r
\* (a missing uid is 0 here: null and 0 are both falsy)
generateToken(channel, uid, r) ==
    [token |-> "generated", channel |-> channel,
     uid |-> IF uid # 0 THEN uid ELSE r]

\* buildAgoraTokenData(channel): generateToken without preferred uid
buildAgoraTokenData(channel, r) == generateToken(channel, 0, r)

\* the speaker's credential of the handler: the client's when it carries a
\* token and a truthy uid, else a generated one
finalChannelTokenData(c, ctd, r) ==
    IF ctd.given /\ ctd.token # "" /\ ctd.uid # 0
    THEN [token |-> ctd.token, channel |-> c, uid |-> ctd.uid]
    ELSE buildAgoraTokenData(c, r)

\* socket.on('start_translation') with the channelTokenData ctd, up to the
\* await of POST /agora/translations; creds are the speaker's, the
\* receiver's and the translator's credential of the request body
start_translation_with(p, c, sl, tl, ctd) ==
    /\ transport = "socket"
    /\ req[p].pc = "idle"
    /\ UNCHANGED <<envVars, oauthVars, sessionVars>>
    /\ IF c = ""
       THEN startError(p, c, FALSE, "Channel name is required")
       ELSE IF sl = Missing \/ tl = Missing
       THEN startError(p, c, FALSE, "Source and target languages are required")
       ELSE IF ~isValidLanguageCode(sl) \/ ~isValidLanguageCode(tl)
       THEN startError(p, c, FALSE, "Invalid language codes provided")
       ELSE IF ~isConfigured
       THEN startError(p, c, FALSE, "Palabra integration is not configured")
       ELSE /\ \E r1, r2, r3 \in RandomUids :
                 req' = [req EXCEPT ![p] =
                          [pc |-> "start", op |-> "start_translation", channel |-> c,
                           sourceLanguage |-> sl, targetLanguage |-> tl,
                           accessToken |-> 0, sessionId |-> 0, taskId |-> 0,
                           creds |-> <<finalChannelTokenData(c, ctd, r1),
                                       buildAgoraTokenData(c, r2),
                                       buildAgoraTokenData(c, r3)>>,
                           attempt |-> 1]]
            /\ UNCHANGED <<agoraVars, last>>

\* the start_translation event without channelTokenData
start_translation(p, c, sl, tl) == start_translation_with(p, c, sl, tl, NoTokenData)

\* storeTask(channel, taskInfo): the map it leaves behind; id = 0 stands for
\* an answer without task_id
storeTask(m, c, id) ==
    IF c = "" \/ id = 0 THEN m
    ELSE MapSet(m, c, [taskId |-> id, createdAt |-> now])

\* POST /agora/translations answers 2xx.  body: a task descriptor with a
\* task_id, one without, or null (logger.info then throws on Object.keys)
taskStarted(p, body) ==
    /\ req[p].pc = "start"
    /\ body \in {"task_id", "no task_id", "null"}
    /\ UNCHANGED <<envVars, oauthVars, sessionVars>>
    /\ IF body = "null"
       THEN startError(p, req[p].channel, TRUE, "Failed to start translation session")
       ELSE LET id == IF body = "task_id" THEN issuedTasks + 1 ELSE 0
            IN /\ body = "task_id" => issuedTasks < MaxTaskIds
               /\ issuedTasks' = IF body = "task_id" THEN issuedTasks + 1 ELSE issuedTasks
               /\ activeTasks' = storeTask(activeTasks, req[p].channel, id)
               /\ req' = [req EXCEPT ![p] = Idle]
               /\ last' = [op |-> "start_translation", channel |-> req[p].channel,
                           taskId |-> id,
                           emitted |-> <<"translation_start_acknowledged",
                                         "translation_started">>]

\* mutant: a failed POST /agora/translations is sent again
taskStartFailed_retry(p, why) ==
    /\ req[p].pc = "start"
    /\ why \in {"rejected", "timeout"}
    /\ req' = [req EXCEPT ![p].attempt = @ + 1]
    /\ UNCHANGED <<envVars, oauthVars, sessionVars, agoraVars, last>>

\* POST /agora/translations fails (non-2xx, network error or timeout)
taskStartFailed(p, why) ==
    /\ req[p].pc = "start"
    /\ why \in {"rejected", "timeout"}
    /\ startError(p, req[p].channel, TRUE, "Failed to start translation session")
    /\ UNCHANGED <<envVars, oauthVars, sessionVars>>

\* the handler ends with a translation_stop_error to the requester; ret is
\* what stopTranslationTask did: returned false, threw, or was not called;
\* called: the DELETE was sent (repeat: the handler directly follows a
\* completed stop of the channel that had found a task)
stopError(p, c, acked, ret, called) ==
    /\ req' = [req EXCEPT ![p] = Idle]
    /\ last' = [op |-> "stop_translation", channel |-> c, ret |-> ret,
                called |-> called,
                repeat |-> (/\ ~called
                            /\ last.op = "stop_translation"
                            /\ last.channel = c
                            /\ last.called),
                emitted |-> IF acked
                            THEN <<"translation_stop_acknowledged",
                                   "translation_stop_error">>
                            ELSE <<"translation_stop_error">>]

\* socket.on('stop_translation') and stopTranslationTask(channel) up to the
\* await of DELETE /agora/translations/{taskId}
stop_translation(p, c) ==
    /\ transport = "socket"
    /\ req[p].pc = "idle"
    /\ UNCHANGED <<envVars, oauthVars, sessionVars, agoraVars>>
    /\ IF c = ""
       THEN stopError(p, c, FALSE, "not called", FALSE)
       ELSE IF ~isConfigured
       THEN stopError(p, c, TRUE, "throws", FALSE)
       ELSE IF c \notin DOMAIN activeTasks
       THEN stopError(p, c, TRUE, "false", FALSE)
       ELSE /\ req' = [req EXCEPT ![p] =
                          [pc |-> "stop", op |-> "stop_translation", channel |-> c,
                           sourceLanguage |-> Missing, targetLanguage |-> Missing,
                           accessToken |-> 0, sessionId |-> 0,
                           taskId |-> activeTasks[c].taskId, creds |-> <<>>,
                   attempt |-> 1]]
            /\ UNCHANGED last

\* mutant: the task is removed only when the DELETE succeeded
stopTranslationTaskStore_keepOnFailure(m, c, ok) == IF ok THEN MapDelete(m, c) ELSE m

\* the map stopTranslationTask leaves behind once the DELETE has answered
\* (ok) or has failed
stopTranslationTaskStore(m, c, ok) == MapDelete(m, c)

\* what DELETE /agora/translations/{taskId} may come back with: a 2xx, a
\* 404 for a task the provider does not know, another error status, or no
\* answer within the timeout
StopAnswers == {"deleted", "task not found", "error", "timeout"}

\* axios resolves the promise for a 2xx status and rejects it for every
\* other status and for a timeout (no validateStatus is configured)
axiosResolves(answer) == answer = "deleted"

\* DELETE /agora/translations/{taskId} has answered or has failed
taskStopDone(p, answer) ==
    /\ req[p].pc = "stop"
    /\ answer \in StopAnswers
    /\ activeTasks' = stopTranslationTaskStore(activeTasks, req[p].channel,
                                               axiosResolves(answer))
    /\ UNCHANGED <<envVars, oauthVars, sessionVars, issuedTasks>>
    /\ IF axiosResolves(answer)
       THEN /\ req' = [req EXCEPT ![p] = Idle]
            /\ last' = [op |-> "stop_translation", channel |-> req[p].channel,
                        ret |-> "true", called |-> TRUE, repeat |-> FALSE,
                        emitted |-> <<"translation_stop_acknowledged",
                                      "translation_stopped">>]
       ELSE stopError(p, req[p].channel, TRUE, "false", TRUE)

\* the stop_translation handler: the event it sends to the requester for
\* the value stopTranslationTask returned
stopTranslationEvent(success) ==
    IF success
    THEN [event |-> "translation_stopped", text |-> "stopped"]
    ELSE [event |-> "translation_stop_error",
          text |-> "Translation session not found or already ended"]

NextSocket ==
    \/ \E p \in Requests, c \in ChannelInputs : start_translation(p, c, En, Es)
    \/ \E p \in Requests, body \in {"task_id", "no task_id", "null"} :
           taskStarted(p, body)
    \/ \E p \in Requests, why \in {"rejected", "timeout"} : taskStartFailed(p, why)
    \/ \E p \in Requests, c \in ChannelInputs : stop_translation(p, c)
    \/ \E p \in Requests, answer \in StopAnswers : taskStopDone(p, answer)

Next ==
    \/ Tick
    \/ NextHttp
    \/ NextSocket

Spec == Init /\ [][Next]_vars

\* the network call the handler p is suspended at comes back: with an
\* answer, with an error status, or with axios' timeout error (every axios
\* call is made with timeout: config.translation.timeout)
Respond(p) ==
    \/ \E e \in ExpiresIn : tokenGranted(p, e)
    \/ \E why \in {"rejected", "timeout", "no access_token"} : tokenFailed(p, why)
    \/ sessionCreated(p)
    \/ \E why \in {"rejected", "timeout", "no session_id"} : sessionFailed(p, why)
    \/ \E ok \in BOOLEAN : endSessionDone(p, ok)
    \/ \E body \in {"task_id", "no task_id", "null"} : taskStarted(p, body)
    \/ \E why \in {"rejected", "timeout"} : taskStartFailed(p, why)
    \/ \E answer \in StopAnswers : taskStopDone(p, answer)

\* the behaviours made of start and stop requests and of the answers to
\* their network calls, at one instant, in which no network call stays
\* pending for ever
NextOps ==
    \E p \in Requests :
        \/ \E c \in Channels :
               \/ startTranslation(p, c, En, Es)
               \/ endSession(p, c)
               \/ start_translation(p, c, En, Es)
               \/ stop_translation(p, c)
        \/ Respond(p)

SpecLive == Init /\ [][NextOps]_vars /\ \A p \in Requests : WF_vars(Respond(p))

\* the behaviours made of start requests only, at one instant, with more
\* language codes
NextStart ==
    \/ \E p \in Requests, c \in ChannelInputs, l \in StartPairs :
           \/ startTranslation(p, c, l[1], l[2])
           \/ start_translation(p, c, l[1], l[2])
    \/ \E p \in Requests, e \in ExpiresIn : tokenGranted(p, e)
    \/ \E p \in Requests, why \in {"rejected", "timeout", "no access_token"} :
           tokenFailed(p, why)
    \/ \E p \in Requests : sessionCreated(p)
    \/ \E p \in Requests, why \in {"rejected", "timeout", "no session_id"} :
           sessionFailed(p, why)
    \/ \E p \in Requests, body \in {"task_id", "no task_id", "null"} :
           taskStarted(p, body)
    \/ \E p \in Requests, why \in {"rejected", "timeout"} : taskStartFailed(p, why)

SpecStart == Init /\ [][NextStart]_vars

\* the behaviours of the token cache: getValidToken called on its own and
\* through createSession, and clearCachedToken, as time passes
InitToken == Init /\ transport = "http"

NextToken ==
    \/ Tick
    \/ clearCachedToken
    \/ \E p \in Requests :
           \/ getValidToken(p)
           \/ \E c \in Channels : startTranslation(p, c, En, Es)
           \/ \E e \in ExpiresIn : tokenGranted(p, e)
           \/ \E why \in {"rejected", "timeout", "no access_token"} : tokenFailed(p, why)
           \/ sessionCreated(p)
           \/ \E why \in {"rejected", "timeout", "no session_id"} : sessionFailed(p, why)

SpecToken == InitToken /\ [][NextToken]_vars

\* the behaviours of the reads of the store: status, list and statistics,
\* among the starts that fill the store, as time passes
NextReads ==
    \/ Tick
    \/ \E c \in Channels : getSessionStatus(c)
    \/ getAllActiveSessions
    \/ getStats
    \/ \E p \in Requests :
           \/ \E c \in Channels : startTranslation(p, c, En, Es)
           \/ \E e \in ExpiresIn : tokenGranted(p, e)
           \/ \E why \in {"rejected", "timeout", "no access_token"} : tokenFailed(p, why)
           \/ sessionCreated(p)
           \/ \E why \in {"rejected", "timeout", "no session_id"} : sessionFailed(p, why)

SpecReads == InitToken /\ [][NextReads]_vars

\* the behaviours made of start_translation events with every kind of
\* channelTokenData, on a server whose uid range leaves room for three
\* distinct uids
InitCredentials ==
    /\ transport = "socket"
    /\ now = SafetyMargin + 1
    /\ configured = TRUE
    /\ defaultUidRange = UidRange
    /\ cachedToken = 0
    /\ tokenExpiry = 0
    /\ issuedTokens = 0
    /\ tokenValidUntil = 0
    /\ activeSessions = EmptyMap
    /\ issuedSessions = 0
    /\ activeTasks = EmptyMap
    /\ issuedTasks = 0
    /\ req = [p \in Requests |-> Idle]
    /\ last = [op |-> "none"]

NextCredentials ==
    \/ \E p \in Requests, c \in Channels, ctd \in TokenDataInputs :
           start_translation_with(p, c, En, Es, ctd)
    \/ \E p \in Requests, body \in {"task_id", "no task_id", "null"} :
           taskStarted(p, body)
    \/ \E p \in Requests, why \in {"rejected", "timeout"} : taskStartFailed(p, why)

SpecCredentials == InitCredentials /\ [][NextCredentials]_vars
\* ================================================================ claims
\* the start requests whose provider start call is in flight
StartCallInFlight == {p \in Requests : req[p].pc \in {"post", "start"}}
\* the requests whose token request is in flight
TokenRequestInFlight == {p \in Requests : req[p].pc = "token"}

\* C1: two start operations on the same channel that overlap make at most
\* one provider start call for that channel: never are two provider start
\* calls for one channel in flight together.
C1_OneStartCallPerChannel ==
    \A p, q \in StartCallInFlight : p # q => req[p].channel # req[q].channel

\* C2: getValidToken calls issued while the cache is empty or expired and
\* before any of them has completed send exactly one token request: never
\* are two token requests in flight together.
C2_SingleFlightTokenRequest == Cardinality(TokenRequestInFlight) <= 1

\* C3: the number of unexpired sessions in activeSessions never exceeds
\* maxSessions.
C3_SessionLimit == Cardinality(Unexpired(activeSessions)) <= maxSessions

\* C4: createSession for a channel that holds an unexpired session returns
\* that stored session, sends no OAuth request and no provider start call
\* (no request becomes suspended) and leaves the store and the token cache
\* unchanged.
C4_IdempotentStart ==
    [][\A p \in Requests, c \in Channels :
         (/\ c \in DOMAIN activeSessions
          /\ now < activeSessions[c].expiresAt
          /\ startTranslation(p, c, En, Es))
         => /\ last'.op = "createSession"
            /\ last'.ok
            /\ last'.session = activeSessions[c]
            /\ last'.reply = startTranslationReply(activeSessions[c])
            /\ last'.session.sessionId = activeSessions[c].sessionId
            /\ req' = req
            /\ activeSessions' = activeSessions
            /\ UNCHANGED <<oauthVars, issuedSessions>>]_vars

\* C4 witness: a start has returned the existing session of its channel
C4_Witness ==
    /\ last.op = "createSession"
    /\ last.ok
    /\ last.existing
    /\ last.channel \in DOMAIN activeSessions
    /\ activeSessions[last.channel] = last.session
    /\ issuedSessions = 1

\* C5: when a stop that found a record completes, the channel has no record
\* in the store, whether the provider stop call succeeded (ok) or failed or
\* timed out (~ok).
C5_StopRemovesRecord ==
    [][\A p \in Requests :
         /\ \A ok \in BOOLEAN :
              endSessionDone(p, ok) => req[p].channel \notin DOMAIN activeSessions'
         /\ \A answer \in StopAnswers :
              taskStopDone(p, answer) => req[p].channel \notin DOMAIN activeTasks']_vars

\* C5 witness: a stop whose provider call failed has completed, and the
\* record it found is gone
C5_Witness ==
    /\ last.op = "endSession"
    /\ last.called
    /\ ~last.ret
    /\ last.channel \notin DOMAIN activeSessions

\* C6: if the token request or the provider start call of a createSession
\* on a channel without session fails, the failure is surfaced (createSession
\* throws) and, once that start has completed, the store holds no record for
\* its channel (getSessionStatus would report hasSession = false).
C6_FailedStartLeavesNoRecord ==
    (last.op = "createSession" /\ ~last.ok /\ last.error \in {"oauth", "provider"})
    => last.channel \notin DOMAIN activeSessions

C8_SecondStopNoOp ==
    [][\A p \in Requests, c \in Channels :
         /\ (/\ endSession(p, c)
             /\ last.op = "endSession" /\ last.channel = c /\ last.called)
            => /\ last'.ret = FALSE /\ ~last'.called
               /\ req' = req /\ activeSessions' = activeSessions
         /\ (/\ stop_translation(p, c)
             /\ last.op = "stop_translation" /\ last.channel = c /\ last.called)
            => /\ last'.ret = "false" /\ ~last'.called
               /\ req' = req /\ activeTasks' = activeTasks]_vars

\* C8 witness: a second stop has completed right after a stop that had
\* called the provider
C8_Witness ==
    /\ last.op = "stop_translation"
    /\ last.repeat
    /\ last.ret = "false"
    /\ \A p \in Requests : req[p].pc = "idle"

\* C9: a get on a channel whose stored session has now >= expiresAt removes
\* the session and reports absence, with no sweep needed: getSessionStatus
\* answers hasSession = false, and createSession does not return the session
\* (it goes on to a token request or provider call, or fails for capacity).
C9_LazyEviction ==
    [][\A c \in Channels :
         (c \in DOMAIN activeSessions /\ now >= activeSessions[c].expiresAt)
         => /\ getSessionStatus(c)
               => /\ c \notin DOMAIN activeSessions'
                  /\ ~last'.ret.hasSession
                  /\ last'.ret.isExpired
            /\ \A p \in Requests :
                 (configured /\ startTranslation(p, c, En, Es))
                 => /\ c \notin DOMAIN activeSessions'
                    /\ \/ req'[p].pc \in {"token", "post"}
                       \/ last'.op = "createSession" /\ ~last'.ok]_vars

\* C9 witness: getSessionStatus has evicted an expired session
C9_Witness ==
    /\ last.op = "getSessionStatus"
    /\ last.evicted
    /\ ~last.ret.hasSession
    /\ last.channel \notin DOMAIN activeSessions

\* C10: getAllActiveSessions returns no session with now >= expiresAt, and
\* every session it found expired is removed from the store when it returns,
\* as getActiveSession does.
C10_ListEvictsExpired ==
    [][getAllActiveSessions
       => /\ \A s \in last'.ret : now < s.expiresAt
          /\ \A c \in DOMAIN activeSessions :
               now >= activeSessions[c].expiresAt => c \notin DOMAIN activeSessions']_vars

\* C11: a start for a channel without unexpired session is rejected for
\* capacity exactly when the store still holds maxSessions (or more)
\* sessions after the sweep of the expired ones, that is when maxSessions
\* sessions are unexpired; the rejected start sends nothing and leaves the
\* swept store.  Otherwise (a session has expired or has been stopped) the
\* start goes on to its token request or provider call, and it succeeds and
\* stores its session when the provider call succeeds.
C11_CapacityAfterSweep ==
    [][\A p \in Requests :
         /\ \A c \in Channels :
              (/\ configured
               /\ ~(c \in DOMAIN activeSessions /\ now < activeSessions[c].expiresAt)
               /\ startTranslation(p, c, En, Es))
              => IF Cardinality(Unexpired(activeSessions)) >= maxSessions
                 THEN /\ last' = [op |-> "createSession", channel |-> c, ok |-> FALSE,
                                  error |-> "capacity"]
                      /\ req' = req
                      /\ DOMAIN activeSessions' = Unexpired(activeSessions)
                 ELSE /\ req'[p].pc \in {"token", "post"}
                      /\ req'[p].channel = c
                      /\ last' = last
         /\ sessionCreated(p)
            => /\ last'.op = "createSession" /\ last'.ok
               /\ req[p].channel \in DOMAIN activeSessions'
               /\ activeSessions'[req[p].channel] = last'.session]_vars

\* C11 witness: a start was rejected for capacity, and the next start of the
\* same channel, made once the stored session had expired, swept the store
\* and has gone on to the provider
C11_Witness ==
    \E p \in Requests :
        /\ req[p].pc \in {"token", "post"}
        /\ last.op = "createSession" /\ ~last.ok /\ last.error = "capacity"
        /\ last.channel = req[p].channel
        /\ issuedSessions = 1
        /\ activeSessions = EmptyMap
        /\ \A q \in Requests \ {p} : req[q].pc = "idle"

\* C12: immediately after a successful start of a channel (no time has
\* passed beyond the session's TTL and no other operation has completed),
\* getActiveSession(channel) returns the session the start returned, its
\* status is 'active' and its expiresAt equals createdAt + cacheTimeout.
C12_ActiveWithTTL ==
    (/\ last.op = "createSession"
     /\ last.ok
     /\ now < last.session.createdAt + cacheTimeout)
    => /\ last.channel \in DOMAIN activeSessions
       /\ ~(now >= activeSessions[last.channel].expiresAt)
       /\ activeSessions[last.channel] = last.session
       /\ activeSessions[last.channel].status = "active"
       /\ activeSessions[last.channel].expiresAt
            = activeSessions[last.channel].createdAt + cacheTimeout

\* C12 witness: a start has just created and stored a session, and
\* getSessionStatus would report it
C12_Witness ==
    /\ last.op = "createSession"
    /\ last.ok
    /\ ~last.existing
    /\ now = last.session.createdAt
    /\ last.channel \in DOMAIN activeSessions
    /\ statusOf(TRUE, activeSessions[last.channel]).status = "active"
    /\ statusOf(TRUE, activeSessions[last.channel]).expiresAt = now + cacheTimeout

\* C13: when the token request of getValidToken fails (rejected, timed out
\* or answered without access_token), cachedToken and tokenExpiry are left
\* exactly as they were and the error is propagated: createSession throws.
C13_FailedRefreshKeepsCache ==
    [][\A p \in Requests, why \in {"rejected", "timeout", "no access_token"} :
         tokenFailed(p, why)
         => /\ cachedToken' = cachedToken
            /\ tokenExpiry' = tokenExpiry
            /\ last' = [op |-> "createSession", channel |-> req[p].channel,
                        ok |-> FALSE, error |-> "oauth"]
            /\ req'[p].pc = "idle"]_vars

\* C13 witness: a token request has failed and the stale cache entry is
\* still there
C13_Witness ==
    /\ last.op = "createSession" /\ ~last.ok /\ last.error = "oauth"
    /\ cachedToken # 0
    /\ tokenExpiry # 0
    /\ now >= tokenExpiry
    /\ \A p \in Requests : req[p].pc = "idle"

\* C14: when a token is cached and now is before its cached expiry, a
\* getValidToken call (made by a createSession that needs a token) returns
\* the cached token, sends no token request and leaves the cache unchanged.
C14_CachedTokenReused ==
    [][\A p \in Requests, c \in Channels :
         (/\ cachedToken # 0 /\ tokenExpiry # 0 /\ now < tokenExpiry
          /\ req'[p].pc # "idle"
          /\ startTranslation(p, c, En, Es))
         => /\ req'[p].pc = "post"
            /\ req'[p].accessToken = cachedToken
            /\ UNCHANGED oauthVars]_vars

\* C14 witness: one token was granted and it has served two provider
\* calls, the second one from the cache
C14_Witness ==
    \E p \in Requests :
        /\ req[p].pc = "post"
        /\ req[p].accessToken = cachedToken
        /\ now < tokenExpiry
        /\ issuedTokens = 1
        /\ issuedSessions = 1

\* the language codes that match ^[a-z]{2}(-[A-Z]{2})?$
MatchesPattern(code) ==
    \/ /\ Len(code) = 2
       /\ code[1] \in Lower /\ code[2] \in Lower
    \/ /\ Len(code) = 5
       /\ code[1] \in Lower /\ code[2] \in Lower
       /\ code[3] = "-"
       /\ code[4] \in Upper /\ code[5] \in Upper

\* the translation_start_error texts of the validation
ValidationErrors ==
    {"Channel name is required", "Source and target languages are required",
     "Invalid language codes provided"}

\* C15: a start request with an empty channel, or with a source or target
\* language code that does not match ^[a-z]{2}(-[A-Z]{2})?$, is rejected
\* with a validation error, and the rejection sends no token request and no
\* provider call (no request becomes suspended) and changes neither the
\* token cache nor the session and task stores.
C15_ValidationFirst ==
    [][\A p \in Requests, c \in ChannelInputs, l \in StartPairs :
         (c = "" \/ ~MatchesPattern(l[1]) \/ ~MatchesPattern(l[2]))
         => /\ startTranslation(p, c, l[1], l[2])
               => /\ last' = [op |-> "startTranslation", channel |-> c,
                              ok |-> FALSE, error |-> "validation"]
                  /\ UNCHANGED <<req, oauthVars, sessionVars, agoraVars>>
            /\ start_translation(p, c, l[1], l[2])
               => /\ last'.op = "start_translation"
                  /\ last'.error \in ValidationErrors
                  /\ last'.emitted = <<"translation_start_error">>
                  /\ UNCHANGED <<req, oauthVars, sessionVars, agoraVars>>]_vars

\* C15 witness: a start with a channel name was rejected for its language
\* codes; nothing was requested and nothing is stored
C15_Witness ==
    /\ last.op = "start_translation"
    /\ last.error = "Invalid language codes provided"
    /\ last.channel # ""
    /\ configured
    /\ issuedTasks = 0
    /\ activeTasks = EmptyMap
    /\ \A p \in Requests : req[p].pc = "idle"

\* C16: start("room2", "xx", "es") is rejected with a validation error
\* because of its source language code: no provider call is made (no request
\* becomes suspended) and no session or task is created for room2.
C16_XxRejected ==
    [][\A p \in Requests :
         /\ startTranslation(p, "room2", Xx, Es)
            => /\ last' = [op |-> "startTranslation", channel |-> "room2",
                           ok |-> FALSE, error |-> "validation"]
               /\ UNCHANGED <<req, oauthVars, sessionVars>>
         /\ start_translation(p, "room2", Xx, Es)
            => /\ last'.op = "start_translation"
               /\ last'.error = "Invalid language codes provided"
               /\ UNCHANGED <<req, agoraVars>>]_vars

\* C17: when the provider answers the stop call with "task not found",
\* stopTranslationTask reports success (true), as for a successful delete:
\* the handler emits translation_stopped.
C17_NotFoundIsSuccess ==
    [][\A p \in Requests :
         taskStopDone(p, "task not found")
         => /\ last'.ret = "true"
            /\ last'.emitted = <<"translation_stop_acknowledged",
                                 "translation_stopped">>]_vars

\* C18: the reply to a stop tells the three outcomes apart: the "not found"
\* reply (HTTP 404, or translation_stop_error 'Translation session not found
\* or already ended') is given only when no record existed for the channel,
\* so a stop whose provider call was sent and failed is answered otherwise.
C18_StopOutcomesDistinct ==
    /\ last.op = "endSession"
       => (stopTranslationReply(last.ret).status = 404 => ~last.called)
    /\ (last.op = "stop_translation" /\ last.ret \in {"true", "false"})
       => (stopTranslationEvent(last.ret = "true").event = "translation_stop_error"
           => ~last.called)

\* C19: in every start that reaches the provider call, the speaker's, the
\* receiver's and the translator's credential are all for the requested
\* channel and carry three pairwise distinct uids.
C19_ThreeDistinctUids ==
    \A p \in Requests :
        req[p].pc = "start"
        => /\ \A i \in 1..3 : req[p].creds[i].channel = req[p].channel
           /\ req[p].creds[1].uid # req[p].creds[2].uid
           /\ req[p].creds[1].uid # req[p].creds[3].uid
           /\ req[p].creds[2].uid # req[p].creds[3].uid

\* C20: no operation retries an external call: the call an operation is
\* awaiting (token request, provider start request, provider stop request)
\* is always its first attempt, and the answer to it, also a failure or a
\* timeout, ends the operation; only an answered token request is followed
\* by one further call, the provider start request.
C20_NoRetry ==
    [][\A p \in Requests :
         /\ req'[p].pc # "idle" => req'[p].attempt = 1
         /\ (req[p].pc # "idle" /\ req'[p] # req[p])
            => \/ req'[p].pc = "idle"
               \/ req[p].pc = "token" /\ req'[p].pc = "post"]_vars

\* C20 witness: a provider start request has failed, the operation has
\* ended with the error, and nothing is in flight
C20_Witness ==
    /\ last.op = "start_translation"
    /\ "error" \in DOMAIN last
    /\ last.error = "Failed to start translation session"
    /\ issuedTasks = 0
    /\ \A p \in Requests : req[p].pc = "idle" /\ req[p].attempt = 0

\* C21: the data of the HTTP start reply, the getSessionStatus result and
\* the entries of getAllActiveSessions never have an accessToken field,
\* while every stored session record holds the access token it was created
\* with.
C21_NoTokenInResponses ==
    /\ \A c \in DOMAIN activeSessions :
         /\ "accessToken" \in DOMAIN activeSessions[c]
         /\ activeSessions[c].accessToken \in 1 .. MaxTokens
    /\ (last.op = "createSession" /\ last.ok)
       => /\ "accessToken" \in DOMAIN last.session
          /\ "accessToken" \notin DOMAIN last.reply
          /\ last.reply.sessionId = last.session.sessionId
    /\ last.op = "getSessionStatus" => "accessToken" \notin DOMAIN last.ret
    /\ last.op = "getAllActiveSessions"
       => \A e \in last.ret : "accessToken" \notin DOMAIN e

\* C21 witness: a start has answered with the summary of the session it
\* stored, and the stored record holds the access token
C21_Witness ==
    /\ last.op = "createSession" /\ last.ok /\ ~last.existing
    /\ last.channel \in DOMAIN activeSessions
    /\ activeSessions[last.channel].accessToken = cachedToken
    /\ cachedToken # 0
    /\ last.reply.sessionId = activeSessions[last.channel].sessionId

\* the requests suspended in a start: at the token request or at the
\* provider start call
SuspendedStarts == {p \in Requests : req[p].pc \in {"token", "post", "start"}}

\* C22: while a start of channel A is suspended at its token request or its
\* provider start call, every operation of another channel B can be taken:
\* an idle handler can run start, stop, status and list for B, and a
\* handler of B that is itself suspended can take the answer, or the
\* timeout, of its own call (a new id only while the provider has ids
\* left).
C22_NoCrossChannelBlocking ==
    \A p \in SuspendedStarts :
      \A q \in Requests \ {p}, B \in Channels \ {req[p].channel} :
        /\ (transport = "http" /\ req[q].pc = "idle")
           => /\ ENABLED startTranslation(q, B, En, Es)
              /\ ENABLED endSession(q, B)
        /\ transport = "http"
           => /\ ENABLED getSessionStatus(B)
              /\ ENABLED getAllActiveSessions
        /\ (transport = "socket" /\ req[q].pc = "idle")
           => /\ ENABLED start_translation(q, B, En, Es)
              /\ ENABLED stop_translation(q, B)
        /\ req[q].channel = B
           => /\ req[q].pc = "token"
                 => /\ ENABLED tokenFailed(q, "timeout")
                    /\ issuedTokens < MaxTokens => ENABLED tokenGranted(q, 1)
              /\ req[q].pc = "post"
                 => /\ ENABLED sessionFailed(q, "timeout")
                    /\ issuedSessions < MaxSessionIds => ENABLED sessionCreated(q)
              /\ req[q].pc = "delete" => ENABLED endSessionDone(q, FALSE)
                                         /\ ENABLED endSessionDone(q, TRUE)
              /\ req[q].pc = "start"
                 => /\ ENABLED taskStartFailed(q, "timeout")
                    /\ issuedTasks < MaxTaskIds => ENABLED taskStarted(q, "task_id")
              /\ req[q].pc = "stop" => ENABLED taskStopDone(q, "timeout")
                                       /\ ENABLED taskStopDone(q, "deleted")

\* C22 witness: a start of one channel is still suspended at its provider
\* call while a start of another channel, made after it was suspended, has
\* completed and stored its session
C22_Witness ==
    \E p \in SuspendedStarts :
        /\ req[p].pc = "post"
        /\ req[p].sessionId = 0
        /\ last.op = "createSession" /\ last.ok /\ ~last.existing
        /\ last.channel # req[p].channel
        /\ last.channel \in DOMAIN activeSessions
        /\ req[p].accessToken < activeSessions[last.channel].accessToken

\* C23: when every network call comes back (answer, error or timeout), a
\* getValidToken that has sent its token request completes, and every start
\* and stop that is suspended completes: its handler returns to idle, with
\* the result recorded when it returned.
C23_OperationsComplete ==
    \A p \in Requests :
        /\ (req[p].pc = "token") ~> (req[p].pc # "token")
        /\ (req[p].pc # "idle") ~> (req[p].pc = "idle")

\* C23 witness: a stop whose provider call was sent has completed with a
\* failure result after a start had stored the task, and nothing is left
\* suspended
C23_Witness ==
    /\ last.op = "stop_translation"
    /\ last.called
    /\ last.ret = "false"
    /\ issuedTasks = 1
    /\ activeTasks = EmptyMap
    /\ \A p \in Requests : req[p].pc = "idle"

\* the terminal replies of the two handlers, and how many of them a
\* sequence of emitted events holds
StartTerminal == {"translation_started", "translation_start_error"}
StopTerminal == {"translation_stopped", "translation_stop_error"}
TerminalReplies(emitted, terminal) ==
    Cardinality({i \in DOMAIN emitted : emitted[i] \in terminal})

\* C24: a start_translation handler that returns, at once or when its
\* provider call has answered or failed (a null answer, on which the
\* logging throws, included), has sent the requester exactly one of
\* translation_started and translation_start_error; a stop_translation
\* handler that returns (also when stopTranslationTask threw) has sent
\* exactly one of translation_stopped and translation_stop_error; a handler
\* that is suspended has sent no terminal reply yet.
C24_OneTerminalReply ==
    [][transport = "socket" =>
       \A p \in Requests :
         /\ (req[p].pc = "start" /\ req'[p].pc = "idle")
            => /\ last'.op = "start_translation" /\ last'.channel = req[p].channel
               /\ TerminalReplies(last'.emitted, StartTerminal) = 1
               /\ TerminalReplies(last'.emitted, StopTerminal) = 0
         /\ (req[p].pc = "stop" /\ req'[p].pc = "idle")
            => /\ last'.op = "stop_translation" /\ last'.channel = req[p].channel
               /\ TerminalReplies(last'.emitted, StopTerminal) = 1
               /\ TerminalReplies(last'.emitted, StartTerminal) = 0
         /\ \A c \in ChannelInputs :
              /\ (start_translation(p, c, En, Es) /\ req'[p].pc = "idle")
                 => /\ last'.op = "start_translation" /\ last'.channel = c
                    /\ TerminalReplies(last'.emitted, StartTerminal) = 1
                    /\ TerminalReplies(last'.emitted, StopTerminal) = 0
              /\ (stop_translation(p, c) /\ req'[p].pc = "idle")
                 => /\ last'.op = "stop_translation" /\ last'.channel = c
                    /\ TerminalReplies(last'.emitted, StopTerminal) = 1
                    /\ TerminalReplies(last'.emitted, StartTerminal) = 0
              /\ ((start_translation(p, c, En, Es) \/ stop_translation(p, c))
                  /\ req'[p].pc # "idle")
                 => last' = last]_vars

\* C24 witness: after a first start had got its task id, a start whose
\* provider call failed (or answered null, on which the logging threw) has
\* sent the requester the acknowledgement and then the error only
C24_Witness ==
    /\ last.op = "start_translation"
    /\ "error" \in DOMAIN last
    /\ last.emitted = <<"translation_start_acknowledged", "translation_start_error">>
    /\ issuedTasks = 1
    /\ last.channel \notin DOMAIN activeTasks

\* C25: clearCachedToken leaves the cache without token and without expiry,
\* whatever it held (getTokenStatus then reports hasToken = false and
\* isExpired = true); a getValidToken that finds the cache as
\* clearCachedToken left it returns no cached value: called on its own or
\* through createSession it sends a token request (on a server without
\* client id and secret it throws, as before the clear).
C25_ClearForcesRefresh ==
    [][/\ clearCachedToken
          => /\ cachedToken' = 0 /\ tokenExpiry' = 0
             /\ ~getTokenStatus'.hasToken
             /\ getTokenStatus'.isExpired
       /\ \A p \in Requests :
            (last.op = "clearCachedToken" /\ cachedToken = 0 /\ tokenExpiry = 0)
            => /\ getValidToken(p)
                  => IF configured
                     THEN req'[p].pc = "token" /\ req'[p].op = "getValidToken"
                     ELSE last'.op = "getValidToken" /\ ~last'.ok
               /\ \A c \in Channels :
                    (/\ startTranslation(p, c, En, Es)
                     /\ configured
                     /\ ~getActiveSessionFound(activeSessions, c)
                     /\ ~atLimit(createSessionStore(activeSessions, c)))
                    => req'[p].pc = "token"]_vars

\* C25 witness: the cache that held the token of a session created within
\* the current tick has been cleared, and the getValidToken that followed
\* is suspended at its token request
C25_Witness ==
    /\ last.op = "clearCachedToken"
    /\ cachedToken = 0
    /\ issuedTokens = 1
    /\ \E p \in Requests : req[p].pc = "token" /\ req[p].op = "getValidToken"
    /\ \E c \in DOMAIN activeSessions : now < activeSessions[c].createdAt + 1

\* C26: on a server without client id or client secret, getValidToken
\* throws, sends no token request (no handler becomes suspended, no token is
\* ever issued) and leaves the cache as it was; a start through
\* createSession throws too, with no token request, no provider call and no
\* session stored.
C26_UnconfiguredFails ==
    [][~configured =>
       \A p \in Requests :
         /\ getValidToken(p)
            => /\ last'.op = "getValidToken" /\ ~last'.ok /\ ~last'.sent
               /\ req' = req
               /\ UNCHANGED oauthVars
         /\ \A c \in Channels :
              startTranslation(p, c, En, Es)
              => /\ last'.op = "createSession" /\ ~last'.ok /\ last'.channel = c
                 /\ req' = req
                 /\ UNCHANGED <<oauthVars, sessionVars>>
                 /\ activeSessions' = EmptyMap
         /\ req'[p].pc = "idle"
         /\ issuedTokens' = 0 /\ issuedSessions' = 0]_vars

\* C26 witness: on a server without credentials a getValidToken has thrown
\* without sending anything, after time has passed
C26_Witness ==
    /\ ~configured
    /\ last.op = "getValidToken"
    /\ ~last.ok
    /\ ~last.sent
    /\ cachedToken = 0 /\ tokenExpiry = 0
    /\ now > SafetyMargin + 1

\* C27: while a start is suspended at its token request or its provider
\* start call, the store holds a record of its channel with status
\* 'starting'; and a record with status 'active' is the record of a
\* provider call that succeeded (it carries the session id the provider
\* gave).
C27_StartingPlaceholder ==
    /\ \A p \in SuspendedStarts :
         IF transport = "http"
         THEN /\ req[p].channel \in DOMAIN activeSessions
              /\ activeSessions[req[p].channel].status = "starting"
         ELSE /\ req[p].channel \in DOMAIN activeTasks
              /\ "status" \in DOMAIN activeTasks[req[p].channel]
              /\ activeTasks[req[p].channel].status = "starting"
    /\ \A c \in DOMAIN activeSessions :
         activeSessions[c].status = "active"
         => activeSessions[c].sessionId \in 1 .. issuedSessions

\* C28: a start_translation for a channel that has a stored task sends no
\* provider start call (its handler does not become suspended) and leaves
\* the stored task of the channel as it is; no answer to a start replaces a
\* stored task either.
C28_StartOnStoredTask ==
    [][transport = "socket" =>
       \A p \in Requests :
         /\ \A c \in Channels :
              (c \in DOMAIN activeTasks /\ start_translation(p, c, En, Es))
              => /\ req'[p].pc = "idle"
                 /\ activeTasks' = activeTasks
         /\ (req[p].pc = "start" /\ req[p].channel \in DOMAIN activeTasks)
            => /\ req[p].channel \in DOMAIN activeTasks'
               /\ activeTasks'[req[p].channel] = activeTasks[req[p].channel]]_vars

\* the stop requests whose provider stop call is in flight
StopCallInFlight == {p \in Requests : req[p].pc \in {"delete", "stop"}}

\* C29: two stops of one channel that overlap make one provider stop call
\* for the channel's session or task: never are two provider stop calls for
\* the same channel in flight together (each of which may be answered with
\* success).
C29_OneStopCallPerChannel ==
    \A p, q \in StopCallInFlight : p # q => req[p].channel # req[q].channel

\* C30: getSessionStatus, getAllActiveSessions and getStats add no session
\* to the store, change no field of a session and remove no session with
\* now < expiresAt: every session of the store they leave was there, field
\* for field, and every unexpired session is still there (so all they may
\* remove are sessions with now >= expiresAt); they change nothing else.
C30_ReadsOnlyEvict ==
    [][((\E c \in Channels : getSessionStatus(c)) \/ getAllActiveSessions \/ getStats)
       => /\ \A c \in DOMAIN activeSessions' :
               c \in DOMAIN activeSessions /\ activeSessions'[c] = activeSessions[c]
          /\ \A c \in DOMAIN activeSessions :
               now < activeSessions[c].expiresAt => c \in DOMAIN activeSessions'
          /\ UNCHANGED <<oauthVars, issuedSessions, agoraVars, req>>]_vars

\* C30 witness: getStats has counted a stored session that has expired,
\* has not listed it, and has left it in the store
C30_Witness ==
    /\ last.op = "getStats"
    /\ last.ret.activeSessions = 1
    /\ last.ret.sessions = {}
    /\ \E c \in DOMAIN activeSessions : now >= activeSessions[c].expiresAt

\* C31: when cleanupExpiredSessions has run at time now, the store holds no
\* session with expiresAt <= now, and every session that had expiresAt > now
\* is still there with every field as before; nothing else changes, whatever
\* starts and stops are suspended at their network calls.
C31_SweepRemovesExactlyExpired ==
    [][cleanupExpiredSessions
       => /\ \A c \in DOMAIN activeSessions' :
               /\ activeSessions'[c].expiresAt > now
               /\ c \in DOMAIN activeSessions
               /\ activeSessions'[c] = activeSessions[c]
          /\ \A c \in DOMAIN activeSessions :
               activeSessions[c].expiresAt > now => c \in DOMAIN activeSessions'
          /\ UNCHANGED <<oauthVars, issuedSessions, agoraVars, req>>]_vars

\* C31 witness: the sweep has run while a start or stop of one channel was
\* suspended, it has removed a session (two were issued, one is stored) and
\* it has left the unexpired session of another channel
C31_Witness ==
    /\ last.op = "cleanupExpiredSessions"
    /\ issuedSessions = 2
    /\ Cardinality(DOMAIN activeSessions) = 1
    /\ \E p \in Requests, c \in DOMAIN activeSessions :
         /\ req[p].pc \in {"token", "post", "delete"}
         /\ req[p].channel # c
         /\ now < activeSessions[c].expiresAt

\* C32: no step changes the expiresAt or the createdAt of the record a
\* channel has in the store: a channel that has a record before and after a
\* step has the same window (a later window comes only with a record stored
\* after the previous one was removed).
C32_WindowNeverExtended ==
    [][\A c \in DOMAIN activeSessions \cap DOMAIN activeSessions' :
         /\ activeSessions'[c].expiresAt = activeSessions[c].expiresAt
         /\ activeSessions'[c].createdAt = activeSessions[c].createdAt]_vars

\* C33: a token response with lifetime expires_in, taken at time now, sets
\* the cached expiry to now + expires_in - 5 minutes, that is 5 minutes
\* before the token ends at the token endpoint; a getValidToken (called on
\* its own or by createSession) that returns the cached token does so more
\* than 5 minutes before the token ends, and one that finds a cached token
\* within its last 5 minutes (or later) sends a token request.
C33_SafetyMargin ==
    [][\A p \in Requests :
         /\ \A e \in ExpiresIn :
              tokenGranted(p, e)
              => /\ tokenExpiry' = now + e - SafetyMargin
                 /\ tokenExpiry' = tokenValidUntil' - SafetyMargin
                 /\ cachedToken' = issuedTokens'
         /\ getValidToken(p)
            => /\ (last' # last /\ last'.ok)
                  => /\ last'.cached
                     /\ last'.token = cachedToken
                     /\ now + SafetyMargin < tokenValidUntil
               /\ (configured /\ cachedToken # 0 /\ now + SafetyMargin >= tokenValidUntil)
                  => req'[p].pc = "token"
         /\ \A c \in Channels :
              startTranslation(p, c, En, Es)
              => /\ req'[p].pc = "post"
                    => /\ req'[p].accessToken = cachedToken
                       /\ now + SafetyMargin < tokenValidUntil
                 /\ (cachedToken # 0 /\ now + SafetyMargin >= tokenValidUntil)
                    => req'[p].pc # "post"]_vars

\* C33 witness: a getValidToken has found the cached token within the last
\* 5 minutes of its lifetime and is suspended at a new token request
C33_Witness ==
    \E p \in Requests :
        /\ req[p].pc = "token"
        /\ req[p].op = "getValidToken"
        /\ cachedToken # 0
        /\ tokenExpiry <= now
        /\ now < tokenValidUntil
        /\ tokenValidUntil > SafetyMargin + 2

\* the credentials of a provider start request that were issued for it by
\* generateToken
FreshCredentials(creds) == {i \in DOMAIN creds : creds[i].token = "generated"}

\* C34: a start_translation that carries channelTokenData (a token and a
\* uid, uid 0 included) sends the provider start request with that token and
\* uid as the speaker's credential and with exactly two generated
\* credentials; one that carries none sends three generated credentials.
C34_SuppliedCredentialReused ==
    [][\A p \in Requests, c \in Channels, ctd \in TokenDataInputs :
         (start_translation_with(p, c, En, Es, ctd) /\ req'[p].pc = "start")
         => IF ctd.given
            THEN /\ req'[p].creds[1].token = ctd.token
                 /\ req'[p].creds[1].uid = ctd.uid
                 /\ Cardinality(FreshCredentials(req'[p].creds)) = 2
            ELSE Cardinality(FreshCredentials(req'[p].creds)) = 3]_vars

\* C35: a stop that completes removes from the store only the record whose
\* session id or task id it sent to the provider: when the channel's record
\* is by then another one, stored by a start that overlapped the stop, that
\* record stays in the store as it is.
C35_StopRemovesOwnRecord ==
    [][\A p \in Requests :
         /\ (/\ req[p].pc = "delete"
             /\ req'[p].pc = "idle"
             /\ req[p].channel \in DOMAIN activeSessions
             /\ activeSessions[req[p].channel].sessionId # req[p].sessionId)
            => /\ req[p].channel \in DOMAIN activeSessions'
               /\ activeSessions'[req[p].channel] = activeSessions[req[p].channel]
         /\ (/\ req[p].pc = "stop"
             /\ req'[p].pc = "idle"
             /\ req[p].channel \in DOMAIN activeTasks
             /\ activeTasks[req[p].channel].taskId # req[p].taskId)
            => /\ req[p].channel \in DOMAIN activeTasks'
               /\ activeTasks'[req[p].channel] = activeTasks[req[p].channel]]_vars

\* C36: when a start_translation handler returns having sent
\* translation_started, activeTasks holds a task of its channel with the
\* task id the provider returned (so that a stop_translation that follows
\* finds it).
C36_StartedMeansStored ==
    [][\A p \in Requests :
         (/\ req[p].pc = "start"
          /\ req'[p].pc = "idle"
          /\ \E i \in DOMAIN last'.emitted : last'.emitted[i] = "translation_started")
         => /\ last'.taskId # 0
            /\ req[p].channel \in DOMAIN activeTasks'
            /\ activeTasks'[req[p].channel].taskId = last'.taskId]_vars

\* the sessions a step removes from the store
RemovedSessions == DOMAIN activeSessions \ DOMAIN activeSessions'

\* C37: a step of getSessionStatus or cleanupExpiredSessions that removes
\* expired sessions sends nothing: no handler becomes suspended at a
\* provider stop call or a token request, and the token cache is as before;
\* a start whose lookup or sweep removes expired sessions sends no provider
\* stop call for them (it goes on with its own start only).
C37_ExpirySendsNothing ==
    [][RemovedSessions # {} =>
       /\ ((\E c \in Channels : getSessionStatus(c)) \/ cleanupExpiredSessions)
          => /\ \A c \in RemovedSessions : now >= activeSessions[c].expiresAt
             /\ req' = req
             /\ UNCHANGED <<oauthVars, issuedSessions, agoraVars>>
       /\ \A p \in Requests, c \in Channels :
            startTranslation(p, c, En, Es)
            => /\ \A k \in RemovedSessions : now >= activeSessions[k].expiresAt
               /\ req'[p].pc \in {"idle", "token", "post"}
               /\ \A q \in Requests \ {p} : req'[q] = req[q]
               /\ UNCHANGED <<oauthVars, issuedSessions, agoraVars>>]_vars

\* C37 witness: getSessionStatus has evicted the only session ever created;
\* nothing is suspended and the one token ever issued is still cached
C37_Witness ==
    /\ last.op = "getSessionStatus"
    /\ last.evicted
    /\ issuedSessions = 1
    /\ issuedTokens = 1
    /\ cachedToken = 1
    /\ activeSessions = EmptyMap
    /\ \A p \in Requests : req[p].pc = "idle"

\* C38: endSession on a channel whose stored session has now >= expiresAt
\* and has not been evicted does what it does for an absent channel: it
\* returns false without calling the provider and no handler becomes
\* suspended at a provider stop call.
C38_StopOfExpiredIsNotFound ==
    [][\A p \in Requests, c \in Channels :
         (/\ c \in DOMAIN activeSessions
          /\ now >= activeSessions[c].expiresAt
          /\ endSession(p, c))
         => /\ req' = req
            /\ last'.op = "endSession"
            /\ last'.channel = c
            /\ ~last'.ret
            /\ ~last'.called]_vars

\* C39: whenever endSession sends a provider stop request, the bearer token
\* of that request is the cached token and the cache is valid at that time
\* (a token is cached and now is before its cached expiry).
C39_StopTokenValid ==
    [][\A p \in Requests, c \in Channels :
         (endSession(p, c) /\ req'[p].pc = "delete")
         => /\ cacheValid
            /\ req'[p].accessToken = cachedToken]_vars

\* C40: a start that createSession rejects because the store holds
\* maxSessions unexpired sessions on other channels sends nothing (no
\* handler becomes suspended at a token request or a provider call, and the
\* token cache and the provider's counters are as before), keeps every
\* session with now < expiresAt exactly as it was, adds no session, and
\* removes only sessions with now >= expiresAt.
C40_CapacityRejectionSendsNothing ==
    [][\A p \in Requests, c \in Channels :
         (/\ configured
          /\ ~(c \in DOMAIN activeSessions /\ now < activeSessions[c].expiresAt)
          /\ Cardinality(Unexpired(activeSessions)) >= maxSessions
          /\ startTranslation(p, c, En, Es))
         => /\ req' = req
            /\ UNCHANGED <<oauthVars, issuedSessions, agoraVars>>
            /\ last'.op = "createSession" /\ ~last'.ok
            /\ DOMAIN activeSessions' \subseteq DOMAIN activeSessions
            /\ \A k \in Unexpired(activeSessions) :
                 k \in DOMAIN activeSessions' /\ activeSessions'[k] = activeSessions[k]
            /\ \A k \in RemovedSessions : now >= activeSessions[k].expiresAt]_vars

\* C40 witness: two sessions were created and a start has just been
\* rejected for capacity; the store holds only the unexpired session of the
\* other channel, one token request was ever made and no handler is
\* suspended
C40_Witness ==
    \E k \in Channels :
        /\ last.op = "createSession" /\ ~last.ok /\ last.error = "capacity"
        /\ last.channel \in Channels \ {k}
        /\ DOMAIN activeSessions = {k}
        /\ now < activeSessions[k].expiresAt
        /\ issuedSessions = 2
        /\ issuedTokens = 1
        /\ \A p \in Requests : req[p].pc = "idle"
====
